---- MODULE Spec2Model ----
(***************************************************************************)
(* Model of app.py: the Flask handlers generate_voice (POST /voice) and    *)
(* book_appointment (POST /book), the outbound calls they issue to the     *)
(* speech provider and to the CRM, and the responses they return.          *)
(*                                                                         *)
(* Python values are records tagged by k: None, str (a sequence of         *)
(* one-character strings), int, dict (a function from keys) and list.      *)
(* Literal text written in app.py (error messages, dict keys) and the raw  *)
(* text of an upstream body are TLA+ strings.                              *)
(***************************************************************************)
EXTENDS Integers, Sequences, FiniteSets, TLC

\* ------------------------------------------------------------------------
\* Bounds
\* ------------------------------------------------------------------------
NumReqs == 2

Reqs == 1 .. NumReqs

\* ------------------------------------------------------------------------
\* Python values
\* ------------------------------------------------------------------------
PyNone == [k |-> "none"]

PyStr(s) == [k |-> "str", s |-> s]

PyInt(n) == [k |-> "int", n |-> n]

PyDict(d) == [k |-> "dict", d |-> d]

PyList(l) == [k |-> "list", l |-> l]

\* A float with one decimal digit
PyFloat(tenths) == [k |-> "float", tenths |-> tenths]

EmptyDict == PyDict(<<>>)

\* bool(v): None, "", 0, {} and [] are falsy
Truthy(v) ==
    CASE v.k = "none" -> FALSE
      [] v.k = "str"  -> Len(v.s) > 0
      [] v.k = "int"  -> v.n # 0
      [] v.k = "dict" -> DOMAIN v.d # {}
      [] v.k = "list" -> Len(v.l) > 0

\* type(v).__name__ as it appears in the interpreter's messages
TypeName(v) ==
    CASE v.k = "none" -> "NoneType"
      [] v.k = "str"  -> "str"
      [] v.k = "int"  -> "int"
      [] v.k = "dict" -> "dict"
      [] v.k = "list" -> "list"

\* An exception object: its class and str(e)
Exc(type, msg) == [type |-> type, msg |-> msg]

Ok(v) == [ok |-> TRUE, v |-> v]

Raise(type, msg) == [ok |-> FALSE, exc |-> Exc(type, msg)]

\* The characters of the keys the handlers look up
KeyText ==
    [name         |-> <<"n", "a", "m", "e">>,
     phone        |-> <<"p", "h", "o", "n", "e">>,
     email        |-> <<"e", "m", "a", "i", "l">>,
     selectedSlot |-> <<"s", "e", "l", "e", "c", "t", "e", "d", "S", "l", "o", "t">>,
     text         |-> <<"t", "e", "x", "t">>]

\* `key in v` for a str key
PyIn(key, v) ==
    CASE v.k = "dict" -> Ok(key \in DOMAIN v.d)
      [] v.k = "list" -> Ok(\E i \in 1 .. Len(v.l) : v.l[i] = PyStr(KeyText[key]))
      [] OTHER        -> Raise("TypeError",
                               "argument of type '" \o TypeName(v) \o "' is not iterable")

\* v[key] for a str key
PyGetItem(v, key) ==
    CASE v.k = "dict" ->
            IF key \in DOMAIN v.d THEN Ok(v.d[key])
            ELSE Raise("KeyError", "'" \o key \o "'")
      [] v.k = "list" ->
            Raise("TypeError", "list indices must be integers or slices, not str")
      [] v.k = "str"  ->
            Raise("TypeError", "string indices must be integers")
      [] OTHER        ->
            Raise("TypeError", "'" \o TypeName(v) \o "' object is not subscriptable")

\* v.get(key, default)
PyGet(v, key, default) ==
    IF v.k = "dict"
    THEN Ok(IF key \in DOMAIN v.d THEN v.d[key] ELSE default)
    ELSE Raise("AttributeError",
               "'" \o TypeName(v) \o "' object has no attribute 'get'")

\* ------------------------------------------------------------------------
\* Text: a Python str is a sequence of one-character strings
\* ------------------------------------------------------------------------
DigitChars == <<"0", "1", "2", "3", "4", "5", "6", "7", "8", "9">>

IsDigit(c) == \E i \in 1 .. 10 : DigitChars[i] = c

DigitVal(c) == (CHOOSE i \in 1 .. 10 : DigitChars[i] = c) - 1

AllDigits(s, from, to) == \A i \in from .. to : IsDigit(s[i])

RECURSIVE NumVal(_, _, _)
NumVal(s, from, to) ==
    IF to < from THEN 0
    ELSE 10 * NumVal(s, from, to - 1) + DigitVal(s[to])

\* "%02d" % n and "%04d" % n
Pad2(n) == <<DigitChars[((n \div 10) % 10) + 1], DigitChars[(n % 10) + 1]>>

Pad4(n) == <<DigitChars[((n \div 1000) % 10) + 1], DigitChars[((n \div 100) % 10) + 1]>>
           \o Pad2(n % 100)

\* ------------------------------------------------------------------------
\* datetime: fromisoformat, pytz localize, isoformat
\* ------------------------------------------------------------------------
\* A datetime is [y, mo, d, h, mi, s, aware, off]: aware is "tzinfo is set" and
\* off the UTC offset in minutes (0 while naive)
IsLeap(y) == (y % 4 = 0 /\ y % 100 # 0) \/ y % 400 = 0

DaysInMonth(y, m) ==
    IF m = 2 THEN (IF IsLeap(y) THEN 29 ELSE 28)
    ELSE IF m \in {4, 6, 9, 11} THEN 30 ELSE 31

\* The constructor datetime(y, mo, d, h, mi, s, tzinfo): range checks in the
\* order the interpreter applies them
MakeDatetime(y, mo, d, h, mi, s, aware, off) ==
    IF y < 1 THEN Raise("ValueError", "year 0 is out of range")
    ELSE IF mo < 1 \/ mo > 12 THEN Raise("ValueError", "month must be in 1..12")
    ELSE IF d < 1 \/ d > DaysInMonth(y, mo)
         THEN Raise("ValueError", "day is out of range for month")
    ELSE IF h > 23 THEN Raise("ValueError", "hour must be in 0..23")
    ELSE IF mi > 59 THEN Raise("ValueError", "minute must be in 0..59")
    ELSE IF s > 59 THEN Raise("ValueError", "second must be in 0..59")
    ELSE Ok([y |-> y, mo |-> mo, d |-> d, h |-> h, mi |-> mi, s |-> s,
             aware |-> aware, off |-> off])

\* Shape of YYYY-MM-DD at s[1..10]
DateShape(s) ==
    /\ Len(s) >= 10
    /\ AllDigits(s, 1, 4) /\ s[5] = "-"
    /\ AllDigits(s, 6, 7) /\ s[8] = "-"
    /\ AllDigits(s, 9, 10)

\* Shape of HH:MM:SS at s[12..19] (any one character separates it from the date)
TimeShape(s) ==
    /\ Len(s) >= 19
    /\ AllDigits(s, 12, 13) /\ s[14] = ":"
    /\ AllDigits(s, 15, 16) /\ s[17] = ":"
    /\ AllDigits(s, 18, 19)

\* Shape of +HH:MM or -HH:MM at s[20..25]
OffsetShape(s) ==
    /\ Len(s) = 25
    /\ s[20] \in {"+", "-"}
    /\ AllDigits(s, 21, 22) /\ s[23] = ":"
    /\ AllDigits(s, 24, 25)
    /\ NumVal(s, 24, 25) < 60

\* The offset of an aware string, in minutes east of UTC
OffsetMinutes(s) ==
    (IF s[20] = "-" THEN -1 ELSE 1) * (60 * NumVal(s, 21, 22) + NumVal(s, 24, 25))

\* datetime.fromisoformat(v) for the forms YYYY-MM-DD, YYYY-MM-DDTHH:MM:SS and
\* YYYY-MM-DDTHH:MM:SS+HH:MM; every other text is an invalid isoformat string
\* (the message's echo of the text is left out)
FromIsoformat(v) ==
    IF v.k # "str"
    THEN Raise("TypeError", "fromisoformat: argument must be str")
    ELSE LET s == v.s
             bad == Raise("ValueError", "Invalid isoformat string")
         IN  IF ~DateShape(s) THEN bad
             ELSE IF Len(s) = 10
                  THEN MakeDatetime(NumVal(s, 1, 4), NumVal(s, 6, 7), NumVal(s, 9, 10),
                                    0, 0, 0, FALSE, 0)
             ELSE IF ~TimeShape(s) THEN bad
             ELSE IF Len(s) = 19
                  THEN MakeDatetime(NumVal(s, 1, 4), NumVal(s, 6, 7), NumVal(s, 9, 10),
                                    NumVal(s, 12, 13), NumVal(s, 15, 16),
                                    NumVal(s, 18, 19), FALSE, 0)
             ELSE IF ~OffsetShape(s) THEN bad
             ELSE MakeDatetime(NumVal(s, 1, 4), NumVal(s, 6, 7), NumVal(s, 9, 10),
                               NumVal(s, 12, 13), NumVal(s, 15, 16),
                               NumVal(s, 18, 19), TRUE, OffsetMinutes(s))

\* Day of the week, 0 = Sunday
MonthKey == <<0, 3, 2, 5, 0, 3, 5, 1, 4, 6, 2, 4>>

DayOfWeek(y, m, d) ==
    LET yy == IF m < 3 THEN y - 1 ELSE y
    IN  (yy + (yy \div 4) - (yy \div 100) + (yy \div 400) + MonthKey[m] + d) % 7

\* The n-th Sunday of month m
NthSunday(y, m, n) ==
    LET first == 1 + ((7 - DayOfWeek(y, m, 1)) % 7)
    IN  first + (7 * (n - 1))

\* America/Chicago (rules in force since 2007): daylight time from the
\* second Sunday of March to the first Sunday of November.  localize() is
\* called with its default is_dst=False, so the skipped hour 02:00-02:59 and
\* the repeated hour 01:00-01:59 both get standard time.
CST == -360

CDT == -300

ChicagoOffsetLMT(dt) == -351

ChicagoOffset(dt) ==
    LET minuteOfMonth(d, h, mi) == (d * 24 + h) * 60 + mi
        at    == minuteOfMonth(dt.d, dt.h, dt.mi)
        start == minuteOfMonth(NthSunday(dt.y, 3, 2), 3, 0)
        end   == minuteOfMonth(NthSunday(dt.y, 11, 1), 1, 0)
    IN  IF \/ dt.mo \in 4 .. 10
           \/ (dt.mo = 3 /\ at >= start)
           \/ (dt.mo = 11 /\ at < end)
        THEN CDT ELSE CST

\* central.localize(dt)
LocalizeOverwrite(dt) == Ok([dt EXCEPT !.aware = TRUE, !.off = ChicagoOffset(dt)])

Localize(dt) ==
    IF dt.aware
    THEN Raise("ValueError", "Not naive datetime (tzinfo is already set)")
    ELSE Ok([dt EXCEPT !.aware = TRUE, !.off = ChicagoOffset(dt)])

\* dt.isoformat()
Isoformat(dt) ==
    LET base == Pad4(dt.y) \o <<"-">> \o Pad2(dt.mo) \o <<"-">> \o Pad2(dt.d) \o <<"T">>
                \o Pad2(dt.h) \o <<":">> \o Pad2(dt.mi) \o <<":">> \o Pad2(dt.s)
        abs  == IF dt.off < 0 THEN -dt.off ELSE dt.off
    IN  IF ~dt.aware THEN PyStr(base)
        ELSE PyStr(base \o <<IF dt.off < 0 THEN "-" ELSE "+">>
                   \o Pad2(abs \div 60) \o <<":">> \o Pad2(abs % 60))

\* ------------------------------------------------------------------------
\* str.split(' ') and ' '.join
\* ------------------------------------------------------------------------
\* s.split(' '): every single space separates, so consecutive, leading and
\* trailing spaces yield empty tokens
RECURSIVE SplitSpace(_)
SplitSpace(s) ==
    IF \A i \in 1 .. Len(s) : s[i] # " " THEN <<s>>
    ELSE LET i == CHOOSE j \in 1 .. Len(s) :
                     s[j] = " " /\ \A h \in 1 .. j - 1 : s[h] # " "
         IN  <<SubSeq(s, 1, i - 1)>> \o SplitSpace(SubSeq(s, i + 1, Len(s)))

\* ' '.join(tokens)
RECURSIVE JoinSpace(_)
JoinSpace(tokens) ==
    IF Len(tokens) = 0 THEN <<>>
    ELSE IF Len(tokens) = 1 THEN tokens[1]
    ELSE tokens[1] \o <<" ">> \o JoinSpace(Tail(tokens))

\* name.split(' ') for a request value
PySplit(v) ==
    IF v.k = "str" THEN Ok(SplitSpace(v.s))
    ELSE Raise("AttributeError",
               "'" \o TypeName(v) \o "' object has no attribute 'split'")

FirstName(tokens) == PyStr(tokens[1])

LastName(tokens) ==
    IF Len(tokens) > 1 THEN PyStr(JoinSpace(Tail(tokens))) ELSE PyStr(<<>>)

\* ------------------------------------------------------------------------
\* Configuration: the module-level values read with os.getenv
\* ------------------------------------------------------------------------
EnvUnset == PyNone

EnvEmpty == PyStr(<<>>)

CompleteConfig ==
    [ELEVENLABS_API_KEY  |-> PyStr(<<"x", "i">>),
     ELEVENLABS_VOICE_ID |-> PyStr(<<"v", "1">>),
     GHL_API_KEY         |-> PyStr(<<"k", "1">>),
     GHL_LOCATION_ID     |-> PyStr(<<"L", "1">>),
     GHL_CALENDAR_ID     |-> PyStr(<<"C", "1">>)]

ConfigNames == DOMAIN CompleteConfig

\* The environments considered: everything set, exactly one value unset or
\* empty, nothing set
ConfigChoices ==
    {CompleteConfig, [n \in ConfigNames |-> EnvUnset]}
    \cup {[CompleteConfig EXCEPT ![n] = v] : n \in ConfigNames, v \in {EnvUnset, EnvEmpty}}

\* all([...]) over configuration values
AllSet(values) == \A v \in values : Truthy(v)

\* all([GHL_API_KEY, GHL_LOCATION_ID, GHL_CALENDAR_ID])
GhlConfigured(cfg) ==
    AllSet({cfg.GHL_API_KEY, cfg.GHL_LOCATION_ID, cfg.GHL_CALENDAR_ID})

\* ------------------------------------------------------------------------
\* Inbound requests
\* ------------------------------------------------------------------------
Absent == [k |-> "absent"]

JaneDoeSmith == <<"J", "a", "n", "e", " ", "D", "o", "e", " ", "S", "m", "i", "t", "h">>

Prince == <<"P", "r", "i", "n", "c", "e">>

NameValues ==
    {PyNone, PyStr(JaneDoeSmith), PyStr(Prince),
     PyStr(<<"J", "o", " ", " ", "D", "o", "e">>), PyStr(<<" ", "J", "o">>)}

PhoneValues == {PyNone, PyStr(<<"5", "5", "5">>)}

EmailValues == {PyNone, PyStr(<<"a", "@", "b">>)}

SlotSpring == <<"2", "0", "2", "3", "-", "0", "4", "-", "2", "5", "T",
                "1", "4", ":", "0", "0", ":", "0", "0">>

SlotWinter == <<"2", "0", "2", "4", "-", "0", "1", "-", "1", "5", "T",
                "0", "9", ":", "3", "0", ":", "0", "0">>

\* 03:30 on the second Sunday of March 2023, the day daylight time begins
SlotSpringForward == <<"2", "0", "2", "3", "-", "0", "3", "-", "1", "2", "T",
                       "0", "3", ":", "3", "0", ":", "0", "0">>

SlotWithOffset == SlotSpring \o <<"+", "0", "2", ":", "0", "0">>

SlotNotADate == <<"n", "o", "t", "-", "a", "-", "d", "a", "t", "e">>

SlotOutOfRange == <<"2", "0", "2", "3", "-", "1", "3", "-", "4", "0", "T",
                    "9", "9", ":", "0", "0", ":", "0", "0">>

SlotValues ==
    {PyNone, PyStr(SlotSpring), PyStr(SlotWinter), PyStr(SlotSpringForward),
     PyStr(SlotWithOffset),
     PyStr(SlotNotADate), PyStr(SlotOutOfRange)}

RequiredFields == <<"name", "phone", "email", "selectedSlot">>

\* The JSON object with the given members, Absent ones left out
MakeObject(members) ==
    PyDict([key \in {f \in DOMAIN members : members[f] # Absent} |-> members[key]])

BookObjects ==
    {MakeObject([name |-> n, phone |-> p, email |-> e, selectedSlot |-> s]) :
        n \in NameValues \cup {Absent}, p \in PhoneValues \cup {Absent},
        e \in EmailValues \cup {Absent}, s \in SlotValues \cup {Absent}}

\* A request: how its body reaches get_json
\*   "nojson"    no JSON body (no application/json content type)
\*   "malformed" JSON content type, body that does not decode
\*   "value"     a JSON document, decoded to value
NoRequest == [how |-> "none", value |-> PyNone]

JsonRequest(v) == [how |-> "value", value |-> v]

BookRequests ==
    {[how |-> "nojson", value |-> PyNone], [how |-> "malformed", value |-> PyNone],
     JsonRequest(PyNone),
     JsonRequest(PyList([i \in 1 .. 4 |-> PyStr(KeyText[RequiredFields[i]])]))}
    \cup {JsonRequest(o) : o \in BookObjects}

VoiceRequests ==
    {[how |-> "nojson", value |-> PyNone], [how |-> "malformed", value |-> PyNone],
     JsonRequest(PyNone), JsonRequest(EmptyDict), JsonRequest(PyList(<<PyStr(KeyText.text)>>)),
     JsonRequest(PyDict([text |-> PyStr(<<"h", "i">>)])),
     JsonRequest(PyDict([text |-> PyStr(<<>>)])),
     JsonRequest(PyDict([text |-> PyNone])),
     JsonRequest(PyDict([text |-> PyInt(5)]))}

\* request.get_json(): the decoded body.  A body that does not decode raises
\* BadRequest; without a JSON content type the call returns None or raises
\* UnsupportedMediaType, depending on the installed Flask.
GetJson(req) ==
    CASE req.how = "value"     -> {Ok(req.value)}
      [] req.how = "malformed" ->
            {Raise("BadRequest", "400 Bad Request: Failed to decode JSON object")}
      [] req.how = "nojson"    ->
            {Ok(PyNone),
             Raise("UnsupportedMediaType",
                   "415 Unsupported Media Type: Did not attempt to load JSON data")}

\* ------------------------------------------------------------------------
\* Upstream responses
\* ------------------------------------------------------------------------
Statuses == {200, 201, 202, 204, 422, 500}

C123 == PyStr(<<"c", "1", "2", "3">>)

C456 == PyStr(<<"c", "4", "5", "6">>)

ContactBodies ==
    {"{\"id\":\"c123\"}",
     "{\"contact\":{\"id\":\"c456\"}}",
     "{\"id\":\"c123\",\"contact\":{\"id\":\"c456\"}}",
     "{\"id\":\"\",\"contact\":{\"id\":\"c456\"}}",
     "{\"id\":null,\"contact\":{\"id\":\"c456\"}}",
     "{}",
     "{\"contact\":null}",
     "{\"contact\":\"c456\"}",
     "{\"contact\":{}}",
     "[]",
     ""}

CalendarBodies == {"{\"id\":\"a1\"}", "{\"msg\":\"slot taken\"}", ""}

VoiceBodies == {"ID3-audio", "{\"detail\":\"quota\"}"}

\* response.json(): the decoded body text
ResponseJson(text) ==
    CASE text = "{\"id\":\"c123\"}" -> Ok(PyDict([id |-> C123]))
      [] text = "{\"contact\":{\"id\":\"c456\"}}" ->
            Ok(PyDict([contact |-> PyDict([id |-> C456])]))
      [] text = "{\"id\":\"c123\",\"contact\":{\"id\":\"c456\"}}" ->
            Ok(PyDict([id |-> C123, contact |-> PyDict([id |-> C456])]))
      [] text = "{\"id\":\"\",\"contact\":{\"id\":\"c456\"}}" ->
            Ok(PyDict([id |-> PyStr(<<>>), contact |-> PyDict([id |-> C456])]))
      [] text = "{\"id\":null,\"contact\":{\"id\":\"c456\"}}" ->
            Ok(PyDict([id |-> PyNone, contact |-> PyDict([id |-> C456])]))
      [] text = "{}" -> Ok(EmptyDict)
      [] text = "{\"contact\":null}" -> Ok(PyDict([contact |-> PyNone]))
      [] text = "{\"contact\":\"c456\"}" -> Ok(PyDict([contact |-> C456]))
      [] text = "{\"contact\":{}}" -> Ok(PyDict([contact |-> EmptyDict]))
      [] text = "[]" -> Ok(PyList(<<>>))
      [] text = "{\"id\":\"a1\"}" -> Ok(PyDict([id |-> PyStr(<<"a", "1">>)]))
      [] text = "{\"msg\":\"slot taken\"}" ->
            Ok(PyDict([msg |-> PyStr(<<"s", "l", "o", "t", " ", "t", "a", "k", "e", "n">>)]))
      [] OTHER -> Raise("JSONDecodeError", "Expecting value: line 1 column 1 (char 0)")

\* Every answer considered: for each provider, any status with any body
AnyAnswer ==
    [statuses        |-> Statuses,
     contact_bodies  |-> ContactBodies,
     calendar_bodies |-> CalendarBodies,
     voice_bodies    |-> VoiceBodies]

NoUpstream == [status_code |-> 0, text |-> ""]

Upstream(status, text) == [status_code |-> status, text |-> text]

\* requests.post raising instead of returning
ConnectionFailure == Exc("ConnectionError", "Connection aborted.")

\* ------------------------------------------------------------------------
\* Responses of the handlers
\* ------------------------------------------------------------------------
NoResponse == [status |-> 0]

\* jsonify(body), status
Jsonify(body, status) ==
    [status |-> status, mimetype |-> "application/json", json |-> body]

\* send_file(audio_data, mimetype="audio/mpeg", as_attachment=True,
\*           download_name="voice.mp3")
SendFile(content) ==
    [status |-> 200, mimetype |-> "audio/mpeg", as_attachment |-> TRUE,
     download_name |-> "voice.mp3", content |-> content]

\* What a step of a handler does next: go on with a value, return a
\* response (handled lists the exception an inner except clause consumed), or
\* raise
Continue(v) == [kind |-> "continue", v |-> v]

Return(rsp) == [kind |-> "return", response |-> rsp, handled |-> <<>>]

ReturnAfter(exc, rsp) == [kind |-> "return", response |-> rsp, handled |-> <<exc>>]

Throw(exc) == [kind |-> "raise", exc |-> exc]

\* `except Exception`: the classes the handlers' code can raise all derive
\* from Exception
ExceptionClasses ==
    {"TypeError", "KeyError", "AttributeError", "ValueError", "JSONDecodeError",
     "ConnectionError", "BadRequest", "UnsupportedMediaType"}

CaughtByExceptNarrow(exc) == exc.type \in {"ValueError", "KeyError"}

CaughtByExcept(exc) == exc.type \in ExceptionClasses

\* The outer except clause: jsonify({"error": str(e)}), 500
ErrorResponse(exc) == Jsonify([error |-> exc.msg], 500)

\* ------------------------------------------------------------------------
\* State
\* ------------------------------------------------------------------------
VARIABLES
    config,            \* the module-level configuration values
    provider,          \* the answers the providers may give in this run
    endpoint,          \* per request: "book", "voice" or "none"
    request,           \* per request: the inbound request
    pc,                \* per request: the handler's position
    data,              \* per request: the local data
    appointment_time,  \* per request: the local appointment_time
    contact_response,  \* per request: the local contact_response
    contact_id,        \* per request: the local contact_id
    calendar_response, \* per request: the local calendar_response
    voice_response,    \* per request: generate_voice's local response
    calls,             \* per request: the outbound calls issued, in order
    inflight,          \* per request: the urls of the calls not yet returned
    raised,            \* per request: the exceptions raised, with the clause that caught each
    response           \* per request: the response returned to the caller

vars == <<config, provider, endpoint, request, pc, data, appointment_time, contact_response,
          contact_id, calendar_response, voice_response, calls, inflight, raised,
          response>>

locals == <<data, appointment_time, contact_response, contact_id, calendar_response,
            voice_response>>

NoTime == [y |-> 0, mo |-> 0, d |-> 0, h |-> 0, mi |-> 0, s |-> 0,
           aware |-> FALSE, off |-> 0]

ContactUrl == "https://rest.gohighlevel.com/v1/contacts/"

CalendarUrl == "https://rest.gohighlevel.com/v1/appointments/"

VoiceUrl == "https://api.elevenlabs.io/v1/text-to-speech/"

\* The state in which request 1 has arrived at the given endpoint and the
\* other workers are idle
Arrived(ep, req) ==
    /\ endpoint = [r \in Reqs |-> IF r = 1 THEN ep ELSE "none"]
    /\ request = [r \in Reqs |-> IF r = 1 THEN req ELSE NoRequest]
    /\ pc = [r \in Reqs |-> IF r = 1 THEN ep \o "_validate" ELSE "idle"]

\* The locals of every handler before it runs
Fresh ==
    /\ data = [r \in Reqs |-> PyNone]
    /\ appointment_time = [r \in Reqs |-> NoTime]
    /\ contact_response = [r \in Reqs |-> NoUpstream]
    /\ contact_id = [r \in Reqs |-> PyNone]
    /\ calendar_response = [r \in Reqs |-> NoUpstream]
    /\ voice_response = [r \in Reqs |-> NoUpstream]
    /\ calls = [r \in Reqs |-> <<>>]
    /\ inflight = [r \in Reqs |-> {}]
    /\ raised = [r \in Reqs |-> <<>>]
    /\ response = [r \in Reqs |-> NoResponse]

Init ==
    /\ config \in ConfigChoices
    /\ provider = AnyAnswer
    /\ \/ \E req \in BookRequests : Arrived("book", req)
       \/ \E req \in VoiceRequests : Arrived("voice", req)
    /\ Fresh

\* The handler returns rsp
Respond(r, rsp, handled) ==
    /\ response' = [response EXCEPT ![r] = rsp]
    /\ raised' = [raised EXCEPT
                    ![r] = @ \o [i \in 1 .. Len(handled) |->
                                    [exc |-> handled[i], by |-> "inner"]]]
    /\ pc' = [pc EXCEPT ![r] = "done"]

\* An exception reaches the handler's outer except clause
ExceptReraise(r, exc) ==
    /\ raised' = [raised EXCEPT ![r] = Append(@, [exc |-> exc, by |-> "nobody"])]
    /\ pc' = [pc EXCEPT ![r] = "escaped"]
    /\ UNCHANGED response

Except(r, exc) ==
    /\ raised' = [raised EXCEPT
                    ![r] = Append(@, [exc |-> exc,
                                      by |-> IF CaughtByExcept(exc) THEN "outer"
                                             ELSE "nobody"])]
    /\ IF CaughtByExcept(exc)
       THEN /\ response' = [response EXCEPT ![r] = ErrorResponse(exc)]
            /\ pc' = [pc EXCEPT ![r] = "done"]
       ELSE /\ pc' = [pc EXCEPT ![r] = "escaped"]
            /\ UNCHANGED response

\* A step that ends the handler, by a return or by a raise
Leave(r, res) ==
    IF res.kind = "return" THEN Respond(r, res.response, res.handled)
    ELSE Except(r, res.exc)

\* ------------------------------------------------------------------------
\* book_appointment, step by step
\* ------------------------------------------------------------------------
\* Lines 122-131: read the body, check the required fields in order, log the name
ValidateBook(body) ==
    IF ~body.ok THEN Throw(body.exc)
    ELSE LET d     == body.v
             probe == PyIn(RequiredFields[1], d)
         IN  IF ~probe.ok THEN Throw(probe.exc)
             ELSE LET missing == {i \in 1 .. Len(RequiredFields) :
                                     ~PyIn(RequiredFields[i], d).v}
                      first   == CHOOSE i \in missing : \A j \in missing : i <= j
                      name    == PyGetItem(d, "name")
                  IN  IF missing # {}
                      THEN Return(Jsonify([error |-> "Missing '" \o RequiredFields[first]
                                                     \o "' field"], 400))
                      ELSE IF ~name.ok THEN Throw(name.exc)
                      ELSE Continue(d)

\* Lines 133-142: parse selectedSlot and bind it to Central Time; the inner
\* except clause turns any failure into a 400
NormalizeTimeUncaught(d) ==
    LET slot      == PyGetItem(d, "selectedSlot")
        parsed    == FromIsoformat(slot.v)
        localized == Localize(parsed.v)
        failure   == IF ~slot.ok THEN slot.exc
                     ELSE IF ~parsed.ok THEN parsed.exc ELSE localized.exc
    IN  IF slot.ok /\ parsed.ok /\ localized.ok
        THEN Continue(localized.v)
        ELSE Throw(failure)

NormalizeTime(d) ==
    LET slot      == PyGetItem(d, "selectedSlot")
        parsed    == FromIsoformat(slot.v)
        localized == Localize(parsed.v)
        failure   == IF ~slot.ok THEN slot.exc
                     ELSE IF ~parsed.ok THEN parsed.exc ELSE localized.exc
    IN  IF slot.ok /\ parsed.ok /\ localized.ok
        THEN Continue(localized.v)
        ELSE ReturnAfter(failure,
                         Jsonify([error |-> "Invalid datetime format: " \o failure.msg],
                                 400))

\* Lines 144-146
GuardOnlyApiKey(cfg) ==
    IF ~AllSet({cfg.GHL_API_KEY})
    THEN Return(Jsonify([error |-> "GoHighLevel API configuration incomplete"], 500))
    ELSE Continue(TRUE)

GuardBook(cfg) ==
    IF ~GhlConfigured(cfg)
    THEN Return(Jsonify([error |-> "GoHighLevel API configuration incomplete"], 500))
    ELSE Continue(TRUE)

\* Lines 154-160
ContactPayload(d, cfg) ==
    LET tokens == PySplit(d.d.name)
    IN  IF ~tokens.ok THEN Throw(tokens.exc)
        ELSE Continue(PyDict([email      |-> d.d.email,
                              phone      |-> d.d.phone,
                              firstName  |-> FirstName(tokens.v),
                              lastName   |-> LastName(tokens.v),
                              locationId |-> cfg.GHL_LOCATION_ID]))

\* requests.post(url, json=payload, headers={"Authorization": "Bearer <key>"})
Post(url, payload, cfg) ==
    [method |-> "POST", url |-> url, json |-> payload, bearer |-> cfg.GHL_API_KEY]

\* Line 164: the statuses that count as a created contact
ContactOkAny2xx(status) == status \in 200 .. 299

ContactOk(status) == status \in {200, 201}

\* Line 172: contact_data.get('id') or contact_data.get('contact', {}).get('id')
ExtractNestedFirst(contact_data) ==
    LET contact == PyGet(contact_data, "contact", EmptyDict)
        nested  == PyGet(contact.v, "id", PyNone)
    IN  IF ~contact.ok THEN contact
        ELSE IF ~nested.ok THEN nested
        ELSE IF Truthy(nested.v) THEN nested
        ELSE PyGet(contact_data, "id", PyNone)

ExtractContactId(contact_data) ==
    LET top     == PyGet(contact_data, "id", PyNone)
        contact == PyGet(contact_data, "contact", EmptyDict)
    IN  IF ~top.ok THEN top
        ELSE IF Truthy(top.v) THEN top
        ELSE PyGet(contact.v, "id", PyNone)

\* Lines 164-176: what the handler makes of the contact response
AfterContact(resp) ==
    IF ~ContactOk(resp.status_code)
    THEN Return(Jsonify([error |-> "Failed to create contact", details |-> resp.text], 500))
    ELSE LET contact_data == ResponseJson(resp.text)
             id           == ExtractContactId(contact_data.v)
         IN  IF ~contact_data.ok THEN Throw(contact_data.exc)
             ELSE IF ~id.ok THEN Throw(id.exc)
             ELSE IF ~Truthy(id.v)
                  THEN Return(Jsonify([error |-> "Failed to get contact ID"], 500))
             ELSE Continue(id.v)

AppointmentWith == <<"A", "p", "p", "o", "i", "n", "t", "m", "e", "n", "t", " ",
                     "w", "i", "t", "h", " ">>

Description == <<"A", "p", "p", "o", "i", "n", "t", "m", "e", "n", "t", " ",
                 "b", "o", "o", "k", "e", "d", " ", "v", "i", "a", " ",
                 "V", "A", "P", "P", "I", " ", "V", "o", "i", "c", "e", " ",
                 "B", "o", "t">>

\* Lines 180-187
CalendarPayload(cfg, id, time, d) ==
    PyDict([calendarId  |-> cfg.GHL_CALENDAR_ID,
            contactId   |-> id,
            startTime   |-> Isoformat(time),
            title       |-> PyStr(AppointmentWith \o d.d.name.s),
            description |-> PyStr(Description),
            locationId  |-> cfg.GHL_LOCATION_ID])

\* Line 191: the statuses that count as a booked appointment
CalendarOkAny2xx(status) == status \in 200 .. 299

CalendarOk(status) == status \in {200, 201}

\* Lines 199-204
BookingFailedNoDetails(resp) == Jsonify([error |-> "Failed to book appointment"], 500)

BookingFailed(resp) ==
    Jsonify([error |-> "Failed to book appointment", details |-> resp.text], 500)

\* Lines 191-204: what the handler makes of the appointment response
AfterCalendar(resp, time) ==
    IF CalendarOk(resp.status_code)
    THEN LET appointment == ResponseJson(resp.text)
         IN  IF ~appointment.ok THEN Throw(appointment.exc)
             ELSE Return(Jsonify([success        |-> TRUE,
                                  message        |-> "Appointment booked successfully",
                                  scheduled_time |-> Isoformat(time),
                                  appointment    |-> appointment.v], 200))
    ELSE Return(BookingFailed(resp))

BookValidate(r) ==
    /\ pc[r] = "book_validate"
    /\ \E body \in GetJson(request[r]) :
          LET res == ValidateBook(body)
          IN  IF res.kind = "continue"
              THEN /\ data' = [data EXCEPT ![r] = res.v]
                   /\ pc' = [pc EXCEPT ![r] = "book_normalize"]
                   /\ UNCHANGED <<raised, response>>
              ELSE Leave(r, res) /\ UNCHANGED data
    /\ UNCHANGED <<config, provider, endpoint, request, appointment_time, contact_response,
                   contact_id, calendar_response, voice_response, calls, inflight>>

BookNormalize(r) ==
    /\ pc[r] = "book_normalize"
    /\ LET res == NormalizeTime(data[r])
       IN  IF res.kind = "continue"
           THEN /\ appointment_time' = [appointment_time EXCEPT ![r] = res.v]
                /\ pc' = [pc EXCEPT ![r] = "book_guard"]
                /\ UNCHANGED <<raised, response>>
           ELSE Leave(r, res) /\ UNCHANGED appointment_time
    /\ UNCHANGED <<config, provider, endpoint, request, data, contact_response, contact_id,
                   calendar_response, voice_response, calls, inflight>>

BookGuard(r) ==
    /\ pc[r] = "book_guard"
    /\ LET res == GuardBook(config)
       IN  IF res.kind = "continue"
           THEN /\ pc' = [pc EXCEPT ![r] = "book_upsert"]
                /\ UNCHANGED <<raised, response>>
           ELSE Leave(r, res)
    /\ UNCHANGED <<config, provider, endpoint, request, locals, calls, inflight>>

\* Lines 148-162, up to the moment the contact call is on the wire
BookUpsertContact(r) ==
    /\ pc[r] = "book_upsert"
    /\ LET res == ContactPayload(data[r], config)
       IN  IF res.kind = "continue"
           THEN /\ calls' = [calls EXCEPT ![r] = Append(@, Post(ContactUrl, res.v, config))]
                /\ inflight' = [inflight EXCEPT ![r] = @ \cup {ContactUrl}]
                /\ pc' = [pc EXCEPT ![r] = "contact_wait"]
                /\ UNCHANGED <<raised, response>>
           ELSE Leave(r, res) /\ UNCHANGED <<calls, inflight>>
    /\ UNCHANGED <<config, provider, endpoint, request, locals>>

\* The contact call returns; lines 164-189, up to the moment the appointment
\* call is on the wire
ContactResponseShared(r) ==
    /\ pc[r] = "contact_wait"
    /\ \E status \in provider.statuses, text \in provider.contact_bodies :
          LET resp   == Upstream(status, text)
              res    == AfterContact(resp)
              others == {q \in Reqs \ {r} : contact_id[q] # PyNone}
              shared == IF others = {} THEN res.v
                        ELSE contact_id[CHOOSE q \in others : TRUE]
          IN  /\ contact_response' = [contact_response EXCEPT ![r] = resp]
              /\ IF res.kind = "continue"
                 THEN /\ contact_id' = [contact_id EXCEPT ![r] = res.v]
                      /\ calls' = [calls EXCEPT
                                     ![r] = Append(@, Post(CalendarUrl,
                                                           CalendarPayload(config, shared,
                                                               appointment_time[r], data[r]),
                                                           config))]
                      /\ inflight' = [inflight EXCEPT
                                        ![r] = (@ \ {ContactUrl}) \cup {CalendarUrl}]
                      /\ pc' = [pc EXCEPT ![r] = "calendar_wait"]
                      /\ UNCHANGED <<raised, response>>
                 ELSE /\ Leave(r, res)
                      /\ inflight' = [inflight EXCEPT ![r] = @ \ {ContactUrl}]
                      /\ UNCHANGED <<contact_id, calls>>
    /\ UNCHANGED <<config, provider, endpoint, request, data, appointment_time,
                   calendar_response, voice_response>>

ContactResponse(r) ==
    /\ pc[r] = "contact_wait"
    /\ \E status \in provider.statuses, text \in provider.contact_bodies :
          LET resp == Upstream(status, text)
              res  == AfterContact(resp)
          IN  /\ contact_response' = [contact_response EXCEPT ![r] = resp]
              /\ IF res.kind = "continue"
                 THEN /\ contact_id' = [contact_id EXCEPT ![r] = res.v]
                      /\ calls' = [calls EXCEPT
                                     ![r] = Append(@, Post(CalendarUrl,
                                                           CalendarPayload(config, res.v,
                                                               appointment_time[r], data[r]),
                                                           config))]
                      /\ inflight' = [inflight EXCEPT
                                        ![r] = (@ \ {ContactUrl}) \cup {CalendarUrl}]
                      /\ pc' = [pc EXCEPT ![r] = "calendar_wait"]
                      /\ UNCHANGED <<raised, response>>
                 ELSE /\ Leave(r, res)
                      /\ inflight' = [inflight EXCEPT ![r] = @ \ {ContactUrl}]
                      /\ UNCHANGED <<contact_id, calls>>
    /\ UNCHANGED <<config, provider, endpoint, request, data, appointment_time,
                   calendar_response, voice_response>>

\* The contact call raises (connection refused, reset, ...)
ContactFailsRetry(r) ==
    /\ pc[r] = "contact_wait"
    /\ IF Len(calls[r]) < 2
       THEN /\ calls' = [calls EXCEPT ![r] = Append(@, @[Len(@)])]
            /\ UNCHANGED <<pc, inflight, raised, response>>
       ELSE /\ inflight' = [inflight EXCEPT ![r] = @ \ {ContactUrl}]
            /\ Except(r, ConnectionFailure)
            /\ UNCHANGED calls
    /\ UNCHANGED <<config, provider, endpoint, request, locals>>

ContactFails(r) ==
    /\ pc[r] = "contact_wait"
    /\ inflight' = [inflight EXCEPT ![r] = @ \ {ContactUrl}]
    /\ Except(r, ConnectionFailure)
    /\ UNCHANGED <<config, provider, endpoint, request, locals, calls>>

\* The appointment call returns; lines 191-204
CalendarResponse(r) ==
    /\ pc[r] = "calendar_wait"
    /\ \E status \in provider.statuses, text \in provider.calendar_bodies :
          LET resp == Upstream(status, text)
          IN  /\ calendar_response' = [calendar_response EXCEPT ![r] = resp]
              /\ Leave(r, AfterCalendar(resp, appointment_time[r]))
    /\ inflight' = [inflight EXCEPT ![r] = @ \ {CalendarUrl}]
    /\ UNCHANGED <<config, provider, endpoint, request, data, appointment_time, contact_response,
                   contact_id, voice_response, calls>>

\* The appointment call raises
CalendarFails(r) ==
    /\ pc[r] = "calendar_wait"
    /\ inflight' = [inflight EXCEPT ![r] = @ \ {CalendarUrl}]
    /\ Except(r, ConnectionFailure)
    /\ UNCHANGED <<config, provider, endpoint, request, locals, calls>>

\* ------------------------------------------------------------------------
\* generate_voice, step by step
\* ------------------------------------------------------------------------
\* Lines 49-56: read the body, require 'text', log its first 50 characters
ValidateVoice(body) ==
    IF ~body.ok THEN Throw(body.exc)
    ELSE LET d       == body.v
             missing == Return(Jsonify([error |-> "Missing 'text' field"], 400))
             probe   == PyIn("text", d)
             text    == PyGetItem(d, "text")
         IN  IF ~Truthy(d) THEN missing
             ELSE IF ~probe.ok THEN Throw(probe.exc)
             ELSE IF ~probe.v THEN missing
             ELSE IF ~text.ok THEN Throw(text.exc)
             ELSE IF text.v.k # "str"
                  THEN Throw(Exc("TypeError", "'" \o TypeName(text.v)
                                              \o "' object is not subscriptable"))
             ELSE Continue(d)

\* Lines 58-64
GuardVoice(cfg) ==
    IF ~Truthy(cfg.ELEVENLABS_API_KEY)
    THEN Return(Jsonify([error |-> "ElevenLabs API key not configured"], 500))
    ELSE IF ~Truthy(cfg.ELEVENLABS_VOICE_ID)
    THEN Return(Jsonify([error |-> "ElevenLabs voice ID not configured"], 500))
    ELSE Continue(TRUE)

ModelId == <<"e", "l", "e", "v", "e", "n", "_", "m", "o", "n", "o", "l", "i", "n", "g",
             "u", "a", "l", "_", "v", "1">>

\* Lines 67-82: the call to the speech provider
VoicePost(text, cfg) ==
    [method |-> "POST",
     url    |-> VoiceUrl,
     voice  |-> cfg.ELEVENLABS_VOICE_ID,
     xi_key |-> cfg.ELEVENLABS_API_KEY,
     json   |-> PyDict([text           |-> text,
                        model_id       |-> PyStr(ModelId),
                        voice_settings |-> PyDict([stability        |-> PyFloat(5),
                                                   similarity_boost |-> PyFloat(5)])])]

\* Lines 84-100
AfterVoiceNoDetails(resp) ==
    IF resp.status_code = 200
    THEN Return(SendFile(resp.text))
    ELSE Return(Jsonify([error |-> "Failed to generate voice"], resp.status_code))

AfterVoiceAny2xx(resp) ==
    IF resp.status_code \in 200 .. 299
    THEN Return(SendFile(resp.text))
    ELSE Return(Jsonify([error |-> "Failed to generate voice", details |-> resp.text],
                        resp.status_code))

AfterVoice(resp) ==
    IF resp.status_code = 200
    THEN Return(SendFile(resp.text))
    ELSE Return(Jsonify([error |-> "Failed to generate voice", details |-> resp.text],
                        resp.status_code))

VoiceValidate(r) ==
    /\ pc[r] = "voice_validate"
    /\ \E body \in GetJson(request[r]) :
          LET res == ValidateVoice(body)
          IN  IF res.kind = "continue"
              THEN /\ data' = [data EXCEPT ![r] = res.v]
                   /\ pc' = [pc EXCEPT ![r] = "voice_guard"]
                   /\ UNCHANGED <<raised, response>>
              ELSE Leave(r, res) /\ UNCHANGED data
    /\ UNCHANGED <<config, provider, endpoint, request, appointment_time, contact_response,
                   contact_id, calendar_response, voice_response, calls, inflight>>

VoiceGuard(r) ==
    /\ pc[r] = "voice_guard"
    /\ LET res == GuardVoice(config)
       IN  IF res.kind = "continue"
           THEN /\ pc' = [pc EXCEPT ![r] = "voice_call"]
                /\ UNCHANGED <<raised, response>>
           ELSE Leave(r, res)
    /\ UNCHANGED <<config, provider, endpoint, request, locals, calls, inflight>>

VoiceCall(r) ==
    /\ pc[r] = "voice_call"
    /\ calls' = [calls EXCEPT ![r] = Append(@, VoicePost(data[r].d.text, config))]
    /\ inflight' = [inflight EXCEPT ![r] = @ \cup {VoiceUrl}]
    /\ pc' = [pc EXCEPT ![r] = "voice_wait"]
    /\ UNCHANGED <<config, provider, endpoint, request, locals, raised, response>>

VoiceResponse(r) ==
    /\ pc[r] = "voice_wait"
    /\ \E status \in provider.statuses, text \in provider.voice_bodies :
          LET resp == Upstream(status, text)
          IN  /\ voice_response' = [voice_response EXCEPT ![r] = resp]
              /\ Leave(r, AfterVoice(resp))
    /\ inflight' = [inflight EXCEPT ![r] = @ \ {VoiceUrl}]
    /\ UNCHANGED <<config, provider, endpoint, request, data, appointment_time, contact_response,
                   contact_id, calendar_response, calls>>

VoiceFails(r) ==
    /\ pc[r] = "voice_wait"
    /\ inflight' = [inflight EXCEPT ![r] = @ \ {VoiceUrl}]
    /\ Except(r, ConnectionFailure)
    /\ UNCHANGED <<config, provider, endpoint, request, locals, calls>>

\* ------------------------------------------------------------------------
\* Specification
\* ------------------------------------------------------------------------
Next ==
    \E r \in Reqs :
        \/ BookValidate(r)
        \/ BookNormalize(r)
        \/ BookGuard(r)
        \/ BookUpsertContact(r)
        \/ ContactResponse(r)
        \/ ContactFails(r)
        \/ CalendarResponse(r)
        \/ CalendarFails(r)
        \/ VoiceValidate(r)
        \/ VoiceGuard(r)
        \/ VoiceCall(r)
        \/ VoiceResponse(r)
        \/ VoiceFails(r)

Spec == Init /\ [][Next]_vars

\* The steps of the handler that serves request r
Serve(r) ==
    \/ BookValidate(r) \/ BookNormalize(r) \/ BookGuard(r) \/ BookUpsertContact(r)
    \/ VoiceValidate(r) \/ VoiceGuard(r) \/ VoiceCall(r)

\* The end of an outbound call of request r: requests.post returns or raises
CallEnds(r) ==
    \/ ContactResponse(r) \/ ContactFails(r)
    \/ CalendarResponse(r) \/ CalendarFails(r)
    \/ VoiceResponse(r) \/ VoiceFails(r)

\* The server runs the thread of every request, and every outbound call
\* eventually returns or raises
FairSpec ==
    /\ Spec
    /\ \A r \in Reqs : WF_vars(Serve(r)) /\ WF_vars(CallEnds(r))

\* ---- Requests served at the same time ----
\* Flask serves each request in a thread of its own; the handlers keep their
\* data in locals and only read the module-level configuration.

JaneRequest ==
    JsonRequest(PyDict([name         |-> PyStr(JaneDoeSmith),
                        phone        |-> PyStr(<<"5", "5", "5">>),
                        email        |-> PyStr(<<"a", "@", "b">>),
                        selectedSlot |-> PyStr(SlotSpring)]))

PrinceRequest ==
    JsonRequest(PyDict([name         |-> PyStr(Prince),
                        phone        |-> PyStr(<<"7", "7", "7">>),
                        email        |-> PyStr(<<"p", "@", "q">>),
                        selectedSlot |-> PyStr(SlotWinter)]))

HiRequest == JsonRequest(PyDict([text |-> PyStr(<<"h", "i">>)]))

\* The answers considered when several requests are in flight
FewAnswers ==
    [statuses        |-> {200, 500},
     contact_bodies  |-> {"{\"id\":\"c123\"}", "{\"contact\":{\"id\":\"c456\"}}"},
     calendar_bodies |-> {"{\"id\":\"a1\"}"},
     voice_bodies    |-> {"ID3-audio"}]

\* Every request of Reqs has arrived and none has started
InitConcurrent ==
    /\ config = CompleteConfig
    /\ provider = FewAnswers
    /\ endpoint \in [Reqs -> {"book", "voice"}]
    /\ request \in [Reqs -> {JaneRequest, PrinceRequest, HiRequest}]
    /\ \A r \in Reqs : endpoint[r] = "voice" <=> request[r] = HiRequest
    /\ pc = [r \in Reqs |-> endpoint[r] \o "_validate"]
    /\ Fresh

SpecConcurrent == InitConcurrent /\ [][Next]_vars

\* ------------------------------------------------------------------------
\* Vocabulary of the properties
\* ------------------------------------------------------------------------
Books == {r \in Reqs : endpoint[r] = "book"}

Voices == {r \in Reqs : endpoint[r] = "voice"}

Answered(r) == pc[r] = "done"

\* The urls request r has called, in order
CalledUrls(r) == [i \in 1 .. Len(calls[r]) |-> calls[r][i].url]

Called(r, url) == \E i \in 1 .. Len(calls[r]) : calls[r][i].url = url

\* The response is the JSON error {error: message} with the given status
IsError(rsp, status, message) ==
    /\ rsp.status = status
    /\ rsp.mimetype = "application/json"
    /\ "error" \in DOMAIN rsp.json
    /\ rsp.json.error = message

\* The JSON response carries details equal to text
HasDetails(rsp, text) ==
    /\ "details" \in DOMAIN rsp.json
    /\ rsp.json.details = text

\* The JSON response is exactly {error: message}
IsBareError(rsp, status, message) ==
    /\ IsError(rsp, status, message)
    /\ DOMAIN rsp.json = {"error"}

ContactReturned(r) == contact_response[r] # NoUpstream

CalendarReturned(r) == calendar_response[r] # NoUpstream

\* The body is a JSON object with all four required members
AllFieldsPresent(req) ==
    /\ req.how = "value"
    /\ req.value.k = "dict"
    /\ \A i \in 1 .. Len(RequiredFields) : RequiredFields[i] \in DOMAIN req.value.d

\* The body is a JSON object without one of the required members, or there
\* is no JSON body at all
LacksRequiredField(req) ==
    \/ req.how = "nojson"
    \/ /\ req.how = "value"
       /\ req.value.k = "dict"
       /\ \E i \in 1 .. Len(RequiredFields) : RequiredFields[i] \notin DOMAIN req.value.d

\* ------------------------------------------------------------------------
\* C1
\* ------------------------------------------------------------------------
\* C1: every POST /book whose body lacks one of name, phone, email,
\* selectedSlot (a request with no JSON body included) is answered 400, and
\* no call to the CRM contact or appointment endpoint is made for it.
C1_MissingFieldIs400 ==
    \A r \in Books :
        LacksRequiredField(request[r]) =>
            /\ calls[r] = <<>>
            /\ Answered(r) => response[r].status = 400

\* ------------------------------------------------------------------------
\* C2
\* ------------------------------------------------------------------------
\* C2: the appointment call is made only after the contact call of the same
\* request returned 200 or 201; any other contact status (422, 202, 204, ...)
\* is answered 500 {error: "Failed to create contact", details: upstream
\* body} and the appointment endpoint is not called.
C2_ContactStatusGatesAppointment ==
    \A r \in Books :
        /\ Called(r, CalendarUrl) => contact_response[r].status_code \in {200, 201}
        /\ (ContactReturned(r) /\ contact_response[r].status_code \notin {200, 201}) =>
              /\ Answered(r)
              /\ IsError(response[r], 500, "Failed to create contact")
              /\ HasDetails(response[r], contact_response[r].text)
              /\ ~Called(r, CalendarUrl)

\* A contact call answered 202 or 204 has been turned into the 500
C2_Witness ==
    \E r \in Books :
        /\ contact_response[r].status_code \in {202, 204}
        /\ Answered(r)

\* ------------------------------------------------------------------------
\* C3
\* ------------------------------------------------------------------------
\* A decoded contact body that is an object with no usable id at the top
\* level and none under a contact object (contact missing, null, not an
\* object, or an object without a usable id)
YieldsNoIdentifier(text) ==
    LET body == ResponseJson(text)
    IN  /\ body.ok
        /\ body.v.k = "dict"
        /\ ("id" \in DOMAIN body.v.d => ~Truthy(body.v.d.id))
        /\ ("contact" \in DOMAIN body.v.d /\ body.v.d.contact.k = "dict"
              /\ "id" \in DOMAIN body.v.d.contact.d) => ~Truthy(body.v.d.contact.d.id)

\* C3: a contact response with status 200 or 201 whose body yields no
\* identifier, at the top level or under contact (contact null or not an
\* object included), is answered 500 {error: "Failed to get contact ID"} and
\* the appointment endpoint is never called.
C3_NoIdentifierIsContractError ==
    \A r \in Books :
        (/\ ContactReturned(r)
         /\ contact_response[r].status_code \in {200, 201}
         /\ YieldsNoIdentifier(contact_response[r].text)) =>
            /\ Answered(r)
            /\ IsBareError(response[r], 500, "Failed to get contact ID")
            /\ ~Called(r, CalendarUrl)

\* ------------------------------------------------------------------------
\* C4
\* ------------------------------------------------------------------------
\* The startTime of the appointment call of request r
SentStartTime(r) ==
    (CHOOSE c \in {calls[r][i] : i \in 1 .. Len(calls[r])} : c.url = CalendarUrl).json.d.startTime

\* C4: whenever the appointment call returns 200 or 201 the caller gets 200
\* with success true, scheduled_time equal to the startTime sent and
\* appointment equal to the provider's response object; never an error.
C4_BookedIsSuccess ==
    \A r \in Books :
        (CalendarReturned(r) /\ calendar_response[r].status_code \in {200, 201}) =>
            /\ Answered(r)
            /\ response[r].status = 200
            /\ response[r].mimetype = "application/json"
            /\ DOMAIN response[r].json =
                  {"success", "message", "scheduled_time", "appointment"}
            /\ response[r].json.success = TRUE
            /\ response[r].json.scheduled_time = SentStartTime(r)
            /\ response[r].json.appointment = ResponseJson(calendar_response[r].text).v

\* ------------------------------------------------------------------------
\* C5
\* ------------------------------------------------------------------------
\* C5: after a successful contact upsert, an appointment response other
\* than 200/201 is answered 500 {error: "Failed to book appointment",
\* details: upstream body}, and the request makes no further outbound call:
\* its calls are the one contact POST and the one appointment POST.
C5_AppointmentFailureNoCompensation ==
    \A r \in Books :
        (CalendarReturned(r) /\ calendar_response[r].status_code \notin {200, 201}) =>
            /\ contact_response[r].status_code \in {200, 201}
            /\ Answered(r)
            /\ IsError(response[r], 500, "Failed to book appointment")
            /\ HasDetails(response[r], calendar_response[r].text)
            /\ CalledUrls(r) = <<ContactUrl, CalendarUrl>>
            /\ \A i \in 1 .. Len(calls[r]) : calls[r][i].method = "POST"
            /\ inflight[r] = {}

\* An appointment call answered 500 after the contact was created
C5_Witness ==
    \E r \in Books :
        /\ contact_response[r].status_code = 201
        /\ calendar_response[r].status_code = 500
        /\ Answered(r)

\* ------------------------------------------------------------------------
\* C6
\* ------------------------------------------------------------------------
\* Request r carries all four fields and its selectedSlot does not parse
SlotDoesNotParse(r) ==
    /\ AllFieldsPresent(request[r])
    /\ ~FromIsoformat(request[r].value.d.selectedSlot).ok

\* C6: a /book request with all four fields whose selectedSlot fails
\* ISO-8601 parsing is answered 400 with a message that embeds the parser's
\* failure detail, and no outbound call is made for it.
C6_BadSlotIs400 ==
    \A r \in Books :
        SlotDoesNotParse(r) =>
            /\ calls[r] = <<>>
            /\ inflight[r] = {}
            /\ pc[r] \in {"book_validate", "book_normalize", "done"}
            /\ Answered(r) =>
                  /\ Len(raised[r]) = 1
                  /\ raised[r][1].exc = FromIsoformat(request[r].value.d.selectedSlot).exc
                  /\ IsBareError(response[r], 400,
                                 "Invalid datetime format: " \o raised[r][1].exc.msg)

\* The out-of-range slot 2023-13-40T99:00:00 has been answered
C6_Witness ==
    \E r \in Books :
        /\ AllFieldsPresent(request[r])
        /\ request[r].value.d.selectedSlot = PyStr(SlotOutOfRange)
        /\ Answered(r)
        /\ response[r].json.error = "Invalid datetime format: month must be in 1..12"

\* ------------------------------------------------------------------------
\* C7
\* ------------------------------------------------------------------------
Unconfigured(v) == v \in {EnvUnset, EnvEmpty}

\* /book got past field validation and time normalization
BookInputValid(r) == r \in Books /\ appointment_time[r] # NoTime

\* /voice got past the check of 'text'
VoiceInputValid(r) == r \in Voices /\ data[r] # PyNone

\* C7: on either endpoint, a request that passes input validation while a
\* configuration value the endpoint needs is absent or empty (TTS key or
\* voice id for /voice; CRM key, location id or calendar id for /book) is
\* answered 500, and no outbound call is made for it.
C7_MissingConfigIs500 ==
    \A r \in Reqs :
        (\/ /\ BookInputValid(r)
            /\ \E n \in {"GHL_API_KEY", "GHL_LOCATION_ID", "GHL_CALENDAR_ID"} :
                   Unconfigured(config[n])
         \/ /\ VoiceInputValid(r)
            /\ \E n \in {"ELEVENLABS_API_KEY", "ELEVENLABS_VOICE_ID"} :
                   Unconfigured(config[n])) =>
            /\ calls[r] = <<>>
            /\ inflight[r] = {}
            /\ pc[r] \in {"book_guard", "voice_guard", "done"}
            /\ Answered(r) =>
                  /\ response[r].status = 500
                  /\ response[r].mimetype = "application/json"
                  /\ DOMAIN response[r].json = {"error"}

\* A valid /book request has been answered while the calendar id is empty
C7_Witness ==
    \E r \in Reqs :
        /\ BookInputValid(r)
        /\ config.GHL_CALENDAR_ID = EnvEmpty
        /\ Answered(r)

\* ------------------------------------------------------------------------
\* C8
\* ------------------------------------------------------------------------
\* The identifier a decoded contact body carries: the top-level id when the
\* body has one (a null or empty id is none), otherwise the id under contact
ExpectedContactId(text) ==
    LET body == ResponseJson(text).v.d
    IN  IF "id" \in DOMAIN body /\ Truthy(body.id) THEN body.id
        ELSE body.contact.d.id

\* C8: the contactId sent in the appointment call equals the identifier
\* extracted from the contact response of the same request: the top-level id
\* when the body has one, otherwise the id nested under contact.
C8_ContactIdForwarded ==
    \A r \in Books :
        \A i \in 1 .. Len(calls[r]) :
            calls[r][i].url = CalendarUrl =>
                /\ calls[r][i].json.d.contactId = ExpectedContactId(contact_response[r].text)
                /\ calls[r][i].json.d.contactId = contact_id[r]

\* The appointment call has been issued after a contact body carrying both a
\* top-level id and a nested one
C8_Witness ==
    \E r \in Books :
        /\ contact_response[r].text = "{\"id\":\"c123\",\"contact\":{\"id\":\"c456\"}}"
        /\ Called(r, CalendarUrl)
        /\ calls[r][2].json.d.contactId = C123

\* ------------------------------------------------------------------------
\* C9
\* ------------------------------------------------------------------------
IsPrefix(s, t) == Len(s) <= Len(t) /\ \A i \in 1 .. Len(s) : s[i] = t[i]

CallsInOrder ==
    \A r \in Books :
        /\ IsPrefix(CalledUrls(r), <<ContactUrl, CalendarUrl>>)
        /\ Cardinality(inflight[r]) <= 1
        /\ Called(r, CalendarUrl) => (ContactReturned(r) /\ ContactUrl \notin inflight[r])
        /\ Answered(r) => inflight[r] = {}

NoCallAfterAnswer ==
    \A r \in Books : Answered(r) => calls'[r] = calls[r]

\* C9: the outbound calls of a /book request form a prefix of (contact
\* upsert, appointment creation): each endpoint is called at most once, the
\* appointment call is issued only after the contact call has returned, the
\* two are never in flight together, and nothing is called again once the
\* request has failed or been answered.
C9_SequentialCalls == []CallsInOrder /\ [][NoCallAfterAnswer]_vars

\* Both calls were made, the second one failed, and the request is answered
C9_Witness ==
    \E r \in Books :
        /\ CalledUrls(r) = <<ContactUrl, CalendarUrl>>
        /\ Answered(r)
        /\ Len(raised[r]) = 1
        /\ raised[r][1].exc = ConnectionFailure

\* ------------------------------------------------------------------------
\* C10
\* ------------------------------------------------------------------------
\* C10 as stated: every exception raised inside a handler ends in a 500
\* {error: <exception message>}, and none escapes.
C10_EveryExceptionIs500 ==
    \A r \in Reqs :
        /\ pc[r] # "escaped"
        /\ \A i \in 1 .. Len(raised[r]) :
              /\ Answered(r)
              /\ IsBareError(response[r], 500, raised[r][i].exc.msg)

\* C10: no exception escapes book_appointment or generate_voice.  An exception
\* raised while parsing or localizing selectedSlot is consumed by the inner
\* except clause of book_appointment and answered 400 {error: "Invalid
\* datetime format: <message>"}; every other exception is caught at the
\* handler boundary and answered 500 {error: <message>}.
C10_ExceptionsCaught ==
    \A r \in Reqs :
        /\ pc[r] # "escaped"
        /\ Len(raised[r]) <= 1
        /\ \A i \in 1 .. Len(raised[r]) :
              /\ Answered(r)
              /\ \/ /\ raised[r][i].by = "outer"
                    /\ IsBareError(response[r], 500, raised[r][i].exc.msg)
                 \/ /\ raised[r][i].by = "inner"
                    /\ r \in Books
                    /\ AllFieldsPresent(request[r])
                    /\ calls[r] = <<>>
                    /\ IsBareError(response[r], 400,
                                   "Invalid datetime format: " \o raised[r][i].exc.msg)

\* A TypeError (a body that is not an object) has been answered by the
\* outer except clause
C10_Witness ==
    \E r \in Reqs :
        /\ Answered(r)
        /\ Len(raised[r]) = 1
        /\ raised[r][1].exc.type = "TypeError"
        /\ raised[r][1].by = "outer"
        /\ response[r].status = 500

\* ------------------------------------------------------------------------
\* C11
\* ------------------------------------------------------------------------
\* The body is a JSON object with all four members, one of them null
HasNullField(req) ==
    /\ AllFieldsPresent(req)
    /\ \E i \in 1 .. Len(RequiredFields) : req.value.d[RequiredFields[i]] = PyNone

\* C11: no outbound CRM call is ever made for a /book request in which one
\* of name, phone, email, selectedSlot is present but null.
C11_NullFieldNoCall ==
    \A r \in Books : HasNullField(request[r]) => calls[r] = <<>>

\* ------------------------------------------------------------------------
\* C12
\* ------------------------------------------------------------------------
\* Request r carries all four fields and its selectedSlot parses to a
\* datetime that carries a UTC offset
SlotCarriesOffset(r) ==
    /\ AllFieldsPresent(request[r])
    /\ FromIsoformat(request[r].value.d.selectedSlot).ok
    /\ FromIsoformat(request[r].value.d.selectedSlot).v.aware

\* C12 as stated: a selectedSlot that carries an offset is not rejected; the
\* offset is dropped, the date and time are bound to America/Chicago and the
\* request goes on to the configuration guard.
C12_OffsetOverwritten ==
    \A r \in Books :
        (SlotCarriesOffset(r) /\ pc[r] \notin {"book_validate", "book_normalize"}) =>
            LET parsed == FromIsoformat(request[r].value.d.selectedSlot).v
            IN  /\ appointment_time[r] =
                      [parsed EXCEPT !.aware = TRUE, !.off = ChicagoOffset(parsed)]
                /\ ~(Answered(r) /\ response[r].status = 400 /\ calls[r] = <<>>)

\* C12: a selectedSlot that parses as an ISO-8601 datetime carrying a UTC
\* offset is rejected: localize refuses a datetime whose tzinfo is set, the
\* request is answered 400 {error: "Invalid datetime format: Not naive
\* datetime (tzinfo is already set)"}, and neither the configuration guard
\* nor a CRM call is reached.
C12_OffsetRejected ==
    \A r \in Books :
        SlotCarriesOffset(r) =>
            /\ calls[r] = <<>>
            /\ appointment_time[r] = NoTime
            /\ pc[r] \in {"book_validate", "book_normalize", "done"}
            /\ Answered(r) =>
                  IsBareError(response[r], 400,
                      "Invalid datetime format: Not naive datetime (tzinfo is already set)")

\* The slot 2023-04-25T14:00:00+02:00 has been answered
C12_Witness ==
    \E r \in Books :
        /\ AllFieldsPresent(request[r])
        /\ request[r].value.d.selectedSlot = PyStr(SlotWithOffset)
        /\ Answered(r)
        /\ response[r].status = 400

\* ------------------------------------------------------------------------
\* C13
\* ------------------------------------------------------------------------
VoiceReturned(r) == voice_response[r] # NoUpstream

Non2xx(resp) == resp # NoUpstream /\ resp.status_code \notin 200 .. 299

\* The response is a JSON body carrying details equal to text
CarriesDetails(rsp, text) ==
    /\ rsp.mimetype = "application/json"
    /\ HasDetails(rsp, text)

\* C13 as stated: a non-2xx response from the speech provider, the CRM
\* contact endpoint or the CRM appointment endpoint is answered with a
\* 500-class status and the upstream body verbatim in details.
C13_Non2xxIs500WithDetails ==
    \A r \in Reqs :
        \A resp \in {contact_response[r], calendar_response[r], voice_response[r]} :
            Non2xx(resp) =>
                /\ Answered(r)
                /\ response[r].status \in 500 .. 599
                /\ CarriesDetails(response[r], resp.text)

\* C13: a non-2xx response from the CRM contact endpoint or the CRM
\* appointment endpoint is answered 500 with the upstream body verbatim in
\* details; a non-2xx response from the speech provider is answered with the
\* upstream body verbatim in details and the upstream status itself, which
\* is in the 500 class only when the upstream status is.
C13_Non2xxCarriesDetails ==
    \A r \in Reqs :
        /\ \A resp \in {contact_response[r], calendar_response[r]} :
              Non2xx(resp) =>
                  /\ Answered(r)
                  /\ response[r].status = 500
                  /\ CarriesDetails(response[r], resp.text)
        /\ Non2xx(voice_response[r]) =>
              /\ Answered(r)
              /\ response[r].status = voice_response[r].status_code
              /\ CarriesDetails(response[r], voice_response[r].text)

\* The speech provider answered 422 and the request is answered
C13_Witness ==
    \E r \in Voices :
        /\ voice_response[r].status_code = 422
        /\ Answered(r)
        /\ response[r].status = 422

\* ------------------------------------------------------------------------
\* C14
\* ------------------------------------------------------------------------
\* The response is the audio download built from content
IsAudio(rsp) ==
    /\ rsp.status = 200
    /\ rsp.mimetype = "audio/mpeg"
    /\ rsp.as_attachment
    /\ rsp.download_name = "voice.mp3"

\* C14: /voice returns the audio payload (audio/mpeg, attachment voice.mp3)
\* if and only if the speech provider answered exactly 200; for every other
\* upstream status it returns {error: "Failed to generate voice", details:
\* upstream body} with the upstream status as its HTTP status.
C14_AudioIffUpstream200 ==
    \A r \in Voices :
        /\ (Answered(r) /\ IsAudio(response[r])) => voice_response[r].status_code = 200
        /\ VoiceReturned(r) =>
              /\ Answered(r)
              /\ IF voice_response[r].status_code = 200
                 THEN /\ IsAudio(response[r])
                      /\ response[r].content = voice_response[r].text
                 ELSE /\ IsError(response[r], voice_response[r].status_code,
                                 "Failed to generate voice")
                      /\ HasDetails(response[r], voice_response[r].text)
                      /\ DOMAIN response[r].json = {"error", "details"}

\* The speech provider answered 201 and the caller got the JSON error with
\* status 201
C14_Witness ==
    \E r \in Voices :
        /\ voice_response[r].status_code = 201
        /\ Answered(r)
        /\ response[r].status = 201
        /\ response[r].mimetype = "application/json"

\* ------------------------------------------------------------------------
\* C15
\* ------------------------------------------------------------------------
NonEmpty(token) == Len(token) > 0

\* The whitespace-delimited tokens of a name: runs of spaces separate, and
\* leading or trailing spaces delimit nothing
WhitespaceTokens(s) == SelectSeq(SplitSpace(s), NonEmpty)

\* C15: for every name, the contact payload's firstName is the first
\* whitespace-delimited token of name and lastName the remaining tokens
\* joined by single spaces (empty when there is one token), also when the
\* name has consecutive, leading or trailing whitespace.
C15_NameSplitOnWhitespace ==
    \A r \in Books :
        \A i \in 1 .. Len(calls[r]) :
            calls[r][i].url = ContactUrl =>
                LET tokens == WhitespaceTokens(request[r].value.d.name.s)
                IN  /\ calls[r][i].json.d.firstName = PyStr(tokens[1])
                    /\ calls[r][i].json.d.lastName = PyStr(JoinSpace(Tail(tokens)))

\* ---- C16 ----
\* Everything the model keeps for one request
PerRequest(r) ==
    <<endpoint[r], request[r], pc[r], data[r], appointment_time[r], contact_response[r],
      contact_id[r], calendar_response[r], voice_response[r], calls[r], inflight[r],
      raised[r], response[r]>>

\* The start time the request's own slot gives
OwnStart(r) == Isoformat(Localize(FromIsoformat(request[r].value.d.selectedSlot).v).v)

\* The contact identifier in the response to the request's own contact call
OwnContactId(r) == ExtractContactId(ResponseJson(contact_response[r].text).v).v

\* Every call of r carries r's own body, the configuration and the answer to
\* r's own contact call, and r's response is built from r's own slot and the
\* answers to r's own calls
OwnData(r) ==
    /\ \A i \in 1 .. Len(calls[r]) :
          LET c == calls[r][i]
          IN  /\ c.url = ContactUrl =>
                    c = Post(ContactUrl, ContactPayload(request[r].value, config).v, config)
              /\ c.url = CalendarUrl =>
                    /\ c.json.d.contactId = OwnContactId(r)
                    /\ c.json.d.startTime = OwnStart(r)
                    /\ c.json.d.title = PyStr(AppointmentWith \o request[r].value.d.name.s)
                    /\ c.json.d.calendarId = config.GHL_CALENDAR_ID
                    /\ c.json.d.locationId = config.GHL_LOCATION_ID
                    /\ c.bearer = config.GHL_API_KEY
              /\ c.url = VoiceUrl => c = VoicePost(request[r].value.d.text, config)
    /\ Answered(r) /\ response[r].mimetype = "application/json" =>
          /\ "scheduled_time" \in DOMAIN response[r].json =>
                response[r].json.scheduled_time = OwnStart(r)
          /\ "appointment" \in DOMAIN response[r].json =>
                response[r].json.appointment = ResponseJson(calendar_response[r].text).v
          /\ "details" \in DOMAIN response[r].json =>
                response[r].json.details \in
                    {contact_response[r].text, calendar_response[r].text,
                     voice_response[r].text} \ {NoUpstream.text}
    /\ Answered(r) /\ response[r].mimetype = "audio/mpeg" =>
          response[r].content = voice_response[r].text

\* Two requests with the same body that got the same answers and the same
\* failures made the same calls and got the same response
SameInputsSameOutcome ==
    \A r, q \in Reqs :
        /\ Answered(r) /\ Answered(q)
        /\ endpoint[r] = endpoint[q] /\ request[r] = request[q]
        /\ contact_response[r] = contact_response[q]
        /\ calendar_response[r] = calendar_response[q]
        /\ voice_response[r] = voice_response[q]
        /\ raised[r] = raised[q]
        => calls[r] = calls[q] /\ response[r] = response[q]

\* A step belongs to one request and leaves the state of every other request
\* and the configuration as they were
OneRequestSteps ==
    /\ config' = config
    /\ \E r \in Reqs : \A q \in Reqs \ {r} : PerRequest(q)' = PerRequest(q)

\* C16: requests served concurrently do not interfere: every step changes
\* the state of one request only, never the configuration, and what a request
\* sends and is answered depends only on its own body, the configuration and
\* the answers to its own calls.
C16_RequestsIsolated ==
    /\ [](\A r \in Reqs : OwnData(r))
    /\ []SameInputsSameOutcome
    /\ [][OneRequestSteps]_vars

\* Two bookings with different bodies wait for their appointment calls at the
\* same time, each with the contact identifier of its own contact
C16_Witness ==
    \E r, q \in Reqs :
        /\ r # q /\ request[r] # request[q]
        /\ pc[r] = "calendar_wait" /\ pc[q] = "calendar_wait"
        /\ contact_id[r] # contact_id[q]
        /\ calls[r][2].json.d.contactId = contact_id[r]
        /\ calls[q][2].json.d.contactId = contact_id[q]

\* ---- C17 ----
\* The UTC offset in force in America/Chicago at each slot considered
OffsetInChicago(slot) ==
    CASE slot = SlotSpring -> <<"-", "0", "5", ":", "0", "0">>
      [] slot = SlotSpringForward -> <<"-", "0", "5", ":", "0", "0">>
      [] slot = SlotWinter -> <<"-", "0", "6", ":", "0", "0">>

\* The slot of the request, its wall-clock components unchanged, followed by
\* the Chicago offset
SlotWithChicagoOffset(r) ==
    LET slot == request[r].value.d.selectedSlot.s
    IN  PyStr(slot \o OffsetInChicago(slot))

\* C17: every startTime sent to the appointment endpoint and every
\* scheduled_time returned to the caller is selectedSlot's own date and time
\* followed by the America/Chicago offset for that date; a timestamp without
\* offset is never sent or returned.
C17_TimesCarryChicagoOffset ==
    \A r \in Books :
        /\ \A i \in 1 .. Len(calls[r]) :
              calls[r][i].url = CalendarUrl =>
                  calls[r][i].json.d.startTime = SlotWithChicagoOffset(r)
        /\ (Answered(r) /\ "scheduled_time" \in DOMAIN response[r].json) =>
              response[r].json.scheduled_time = SlotWithChicagoOffset(r)

\* A booking for 03:30 on the day daylight time begins succeeded: its start
\* time was sent and returned with -05:00
C17_Witness ==
    \E r \in Books :
        /\ Answered(r)
        /\ "scheduled_time" \in DOMAIN response[r].json
        /\ request[r].value.d.selectedSlot = PyStr(SlotSpringForward)
        /\ Called(r, CalendarUrl)
        /\ calls[r][2].json.d.startTime = response[r].json.scheduled_time
        /\ Len(response[r].json.scheduled_time.s) = 25

\* ---- C18 ----
\* selectedSlot is there and datetime.fromisoformat does not accept it
SlotUnparsable(req) ==
    AllFieldsPresent(req) /\ ~FromIsoformat(req.value.d.selectedSlot).ok

SlotParses(req) ==
    AllFieldsPresent(req) /\ FromIsoformat(req.value.d.selectedSlot).ok

IsConfigurationError(rsp) ==
    IsError(rsp, 500, "GoHighLevel API configuration incomplete")

\* C18: the /book checks run in the order validate fields, normalize time,
\* guard configuration, and the first failing one decides the response: a
\* request with a missing field or an unparsable selectedSlot is answered 400
\* whatever the CRM configuration, and the 500 configuration error is given
\* only to requests with all fields present and a selectedSlot that parses.
C18_FirstFailingCheckDecides ==
    \A r \in Books :
        Answered(r) =>
            /\ LacksRequiredField(request[r]) => response[r].status = 400
            /\ SlotUnparsable(request[r]) => response[r].status = 400
            /\ IsConfigurationError(response[r]) => SlotParses(request[r])

\* ---- C19 ----
Started(r) == pc[r] # "idle"

\* Once the response of a request is decided, nothing of the request changes:
\* no second response, no further call
AnsweredIsFinal ==
    \A r \in Reqs : Answered(r) => PerRequest(r)' = PerRequest(r)

\* C19: when every outbound call eventually returns or raises, every /book
\* and /voice request that starts is eventually answered, with one response,
\* decided once, and after it the request takes no further step and makes no
\* outbound call.
C19_EveryRequestAnsweredOnce ==
    /\ \A r \in Reqs : Started(r) ~> Answered(r)
    /\ [](\A r \in Reqs : (response[r] # NoResponse) <=> Answered(r))
    /\ [](\A r \in Reqs : Answered(r) => inflight[r] = {})
    /\ [][AnsweredIsFinal]_vars

\* A booking whose appointment call raised has been answered, with both
\* calls over
C19_Witness ==
    \E r \in Books :
        /\ Answered(r)
        /\ Len(calls[r]) = 2
        /\ inflight[r] = {}
        /\ raised[r] # <<>>
        /\ response[r].status = 500

\* ---- C20 ----
ReportsSuccess(rsp) ==
    /\ rsp.mimetype = "application/json"
    /\ "success" \in DOMAIN rsp.json

\* C20: a /book response with success: true is given only when, in that
\* request, the contact call returned 200 or 201 with a non-empty contact
\* identifier and the appointment call was then made and returned 200 or 201;
\* never when either call was skipped, failed or raised.
C20_SuccessOnlyAfterBothCalls ==
    \A r \in Books :
        (Answered(r) /\ ReportsSuccess(response[r])) =>
            /\ response[r].json.success = TRUE
            /\ response[r].status = 200
            /\ CalledUrls(r) = <<ContactUrl, CalendarUrl>>
            /\ contact_response[r].status_code \in {200, 201}
            /\ contact_id[r] \notin {PyNone, PyStr(<<>>)}
            /\ calls[r][2].json.d.contactId = contact_id[r]
            /\ calendar_response[r].status_code \in {200, 201}
            /\ raised[r] = <<>>

\* A booking was answered success: true after a 201 from the contact endpoint
\* with the nested identifier and a 200 from the appointment endpoint
C20_Witness ==
    \E r \in Books :
        /\ Answered(r)
        /\ ReportsSuccess(response[r])
        /\ contact_response[r] = Upstream(201, "{\"contact\":{\"id\":\"c456\"}}")
        /\ calendar_response[r].status_code = 200
        /\ contact_id[r] = C456

====
